---------------------------- MODULE Spec2Model ----------------------------
(***************************************************************************)
(* kabukaview (src/app.js): closing-price reconciliation for a list of    *)
(* Tokyo-listed securities read from a spreadsheet.                        *)
(*                                                                         *)
(* Conventions of the model                                                *)
(*  - a JavaScript value that may be null/undefined is a sequence of       *)
(*    length 0 (Null) or 1 (Some(v));                                      *)
(*  - prices are integers in hundredths of a yen, the reported price is    *)
(*    in tenths of a yen, change rates are in hundredths of a percent;     *)
(*    the divisions of the source are evaluated exactly (no IEEE error);   *)
(*  - instants are seconds since the model epoch 2024-01-01T00:00:00Z;     *)
(*  - strings that the code inspects character by character (stock codes,  *)
(*    tickers, file names) are sequences of one-character strings;         *)
(*  - the browser's time zone has a fixed offset (no DST transition).      *)
(***************************************************************************)
EXTENDS Integers, Sequences, FiniteSets, TLC

\* ------------------------------------------------------------------------
\* Program constants
\* ------------------------------------------------------------------------
BATCH_SIZE == 5

BATCH_DELAY_MS == 1500

DAY == 86400

\* COL.CODE and COL.NAME are 0-based in the source; sequences here are 1-based.
COL_CODE == 2

COL_NAME == 3

\* ------------------------------------------------------------------------
\* Bounds of the model
\* ------------------------------------------------------------------------
\* number of distinct stock codes in the long spreadsheet
LongStocks == 12

\* number of distinct stock codes in the short spreadsheet
ShortStocks == 6

\* file reads (FileReader) that may be pending at the same time
MaxPendingReads == 1

\* wall-clock advances observed during one exploration
MaxTicks == 1

\* length of the timestamp array of an observed provider payload
MaxLen == 3

\* session boundaries the clock is followed across where the clock matters
ClockPoints == 3

\* instruments of the run whose every request fails
OrderStocks == 6

\* index of the instrument whose request may stay unanswered
HungIdx == 2

\* ------------------------------------------------------------------------
\* Optional values
\* ------------------------------------------------------------------------
Null == << >>

Some(v) == << v >>

IsNull(o) == o = << >>

Val(o) == o[1]

\* ------------------------------------------------------------------------
\* Arithmetic helpers
\* ------------------------------------------------------------------------
Abs(x) == IF x < 0 THEN -x ELSE x

\* Math.round(n / d) for d > 0: the nearest integer, halves towards +Infinity
MathRound(n, d) == (2 * n + d) \div (2 * d)

\* Math.floor(n / d) for d > 0
MathFloor(n, d) == n \div d

\* ------------------------------------------------------------------------
\* Calendar (what Date does with a fixed-offset local zone)
\* ------------------------------------------------------------------------
\* the model epoch is 1 January of this year
EpochYear == 2000 + 24

IsLeap(y) == (y % 4 = 0 /\ y % 100 # 0) \/ y % 400 = 0

DaysInYear(y) == IF IsLeap(y) THEN 366 ELSE 365

DaysInMonth(y, m) ==
    IF m = 2 THEN (IF IsLeap(y) THEN 29 ELSE 28)
    ELSE IF m \in {4, 6, 9, 11} THEN 30 ELSE 31

RECURSIVE YearOfDay(_, _)
\* the record [y, doy] of day number n counted from 1 January of year y
YearOfDay(y, n) ==
    IF n < 0 THEN YearOfDay(y - 1, n + DaysInYear(y - 1))
    ELSE IF n >= DaysInYear(y) THEN YearOfDay(y + 1, n - DaysInYear(y))
    ELSE [y |-> y, doy |-> n]

RECURSIVE MonthOfDay(_, _, _)
MonthOfDay(y, m, n) ==
    IF n >= DaysInMonth(y, m) THEN MonthOfDay(y, m + 1, n - DaysInMonth(y, m))
    ELSE [y |-> y, m |-> m, d |-> n + 1]

\* civil date [y, m, d] of the day number n (day 0 = 1 January EpochYear)
CivilFromDays(n) ==
    LET yd == YearOfDay(EpochYear, n) IN MonthOfDay(yd.y, 1, yd.doy)

RECURSIVE DaysBeforeYear(_)
DaysBeforeYear(y) ==
    IF y = EpochYear THEN 0
    ELSE IF y > EpochYear THEN DaysBeforeYear(y - 1) + DaysInYear(y - 1)
    ELSE DaysBeforeYear(y + 1) - DaysInYear(y)

RECURSIVE DaysBeforeMonth(_, _)
DaysBeforeMonth(y, m) ==
    IF m = 1 THEN 0 ELSE DaysBeforeMonth(y, m - 1) + DaysInMonth(y, m - 1)

\* day number of the civil date y-m-d (m in 1..12)
DaysFromCivil(y, m, d) == DaysBeforeYear(y) + DaysBeforeMonth(y, m) + (d - 1)

\* Date#getFullYear/getMonth()+1/getDate of the instant t (seconds) in a zone
\* whose getTimezoneOffset() is tzMin minutes
LocalCivil(t, tzMin) == CivilFromDays(MathFloor(t - tzMin * 60, DAY))

\* Date#getHours() * 60 + Date#getMinutes() of the instant t in that zone
LocalMinuteOfDay(t, tzMin) == MathFloor((t - tzMin * 60) % DAY, 60)

\* new Date(y, m - 1, d).getTime() / 1000: local midnight of a civil date
LocalMidnight(y, m, d, tzMin) == DaysFromCivil(y, m, d) * DAY + tzMin * 60

\* `${y}${mm}${dd}` with two-digit month and day, read as the number YYYYMMDD
FormatYMD(c) == c.y * 10000 + c.m * 100 + c.d


\* ------------------------------------------------------------------------
\* Reference date (getTargetDate, parseDateValue)
\* ------------------------------------------------------------------------
\* variant: the session window is closed at 15:00 (09:00 to 15:00 inclusive)
getTargetDateClosedWindow(now, tzMin) ==
    LET jstDate    == now + tzMin * 60 + 9 * 60 * 60
        currentMin == LocalMinuteOfDay(jstDate, tzMin)
        targetDate == IF currentMin >= 540 /\ currentMin <= 900
                      THEN jstDate - 24 * 60 * 60
                      ELSE jstDate
    IN  FormatYMD(LocalCivil(targetDate, tzMin))

\* getTargetDate() evaluated at the instant now in a browser whose
\* getTimezoneOffset() is tzMin: the YYYYMMDD of the JST day, or of the day
\* before while 09:00 <= JST time < 15:00
getTargetDate(now, tzMin) ==
    LET jstOffset    == 9 * 60
        utc          == now + tzMin * 60
        jstDate      == utc + jstOffset * 60
        currentMin   == LocalMinuteOfDay(jstDate, tzMin)
        targetDate   == IF currentMin >= 540 /\ currentMin < 900
                        THEN jstDate - 24 * 60 * 60
                        ELSE jstDate
    IN  FormatYMD(LocalCivil(targetDate, tzMin))

\* formatDateStr: YYYYMMDD -> the triple shown as YYYY/MM/DD
formatDateStr(yyyymmdd) ==
    << yyyymmdd \div 10000, (yyyymmdd \div 100) % 100, yyyymmdd % 100 >>

\* Math.floor(parseDateValue(dateVal).getTime() / 1000) for an eight-digit
\* value: local midnight of that civil date. Any other value the model passes
\* (0) falls through to `new Date(s)`, which gives an invalid Date (NaN) or,
\* in an engine with a lenient parser, a day of the year 2000; no bar of the
\* model is on or before either, and Null stands for both
parseDateValue(dateVal, tzMin) ==
    IF dateVal >= 10000000 /\ dateVal <= 99999999
    THEN Some(LocalMidnight(dateVal \div 10000, (dateVal \div 100) % 100,
                            dateVal % 100, tzMin))
    ELSE Null

\* ------------------------------------------------------------------------
\* Nearest-match lookup and change rate
\* ------------------------------------------------------------------------
\* closes[i] !== null && closes[i] !== undefined (1-based i)
ClosePresent(closes, i) == i <= Len(closes) /\ ~IsNull(closes[i])

RECURSIVE ScanOnOrBeforeLastWins(_, _, _, _, _)
\* variant: among equally close observations the last one found is kept
ScanOnOrBeforeLastWins(timestamps, closes, targetTs, i, best) ==
    IF i > Len(timestamps) THEN best
    ELSE LET diff == targetTs - timestamps[i]
             take == /\ ClosePresent(closes, i)
                     /\ diff >= 0
                     /\ (best[1] = 0 \/ diff <= best[2])
         IN  ScanOnOrBeforeLastWins(timestamps, closes, targetTs, i + 1,
                                    IF take THEN << i, diff >> ELSE best)

RECURSIVE ScanOnOrBefore(_, _, _, _, _)
\* first loop of findClosestPrice from index i on; best = <<bestIdx, bestDiff>>,
\* bestIdx 0 standing for -1 (bestDiff is then Infinity)
ScanOnOrBefore(timestamps, closes, targetTs, i, best) ==
    IF i > Len(timestamps) THEN best
    ELSE LET diff == targetTs - timestamps[i]
             take == /\ ClosePresent(closes, i)
                     /\ diff >= 0
                     /\ (best[1] = 0 \/ diff < best[2])
         IN  ScanOnOrBefore(timestamps, closes, targetTs, i + 1,
                            IF take THEN << i, diff >> ELSE best)

RECURSIVE ScanNearest(_, _, _, _, _)
\* second loop of findClosestPrice
ScanNearest(timestamps, closes, targetTs, i, best) ==
    IF i > Len(timestamps) THEN best
    ELSE LET diff == Abs(targetTs - timestamps[i])
             take == /\ ClosePresent(closes, i)
                     /\ (best[1] = 0 \/ diff < best[2])
         IN  ScanNearest(timestamps, closes, targetTs, i + 1,
                         IF take THEN << i, diff >> ELSE best)

\* variant: without the second loop, nothing is found when no observation is
\* on or before the target
findClosestIdxOnOrBefore(timestamps, closes, targetTs) ==
    ScanOnOrBefore(timestamps, closes, targetTs, 1, << 0, 0 >>)[1]

\* index chosen by findClosestPrice (0 when none)
findClosestIdx(timestamps, closes, targetTs) ==
    LET first == ScanOnOrBefore(timestamps, closes, targetTs, 1, << 0, 0 >>)
    IN  IF first[1] # 0 THEN first[1]
        ELSE ScanNearest(timestamps, closes, targetTs, 1, << 0, 0 >>)[1]

findClosestPrice(timestamps, closes, targetTs) ==
    LET bestIdx == findClosestIdx(timestamps, closes, targetTs)
    IN  IF bestIdx >= 1 THEN closes[bestIdx] ELSE Null

\* calcChangeRate: hundredths of a percent, Null for a null or zero input
calcChangeRate(currentPrice, pastPrice) ==
    IF IsNull(currentPrice) \/ IsNull(pastPrice) THEN Null
    ELSE IF Val(pastPrice) = 0 THEN Null
    ELSE Some(MathRound((Val(currentPrice) - Val(pastPrice)) * 10000,
                        Val(pastPrice)))

\* ------------------------------------------------------------------------
\* Single-instrument resolver (fetchClosingPrice)
\* ------------------------------------------------------------------------
\* A provider response is a record
\*   net       "reject" (fetch() rejects) or "ok" (a Response arrives)
\*   msg       message of the exception raised on this path, if any
\*   status    HTTP status of the Response
\*   json      what response.json() gives: "invalid" (it rejects), "null",
\*             "nochart" (no chart member), "noresult" (chart.result missing
\*             or null), "emptyresult" (result = []), "nullelem"
\*             (result = [null]) or "chart" (result[0] is an object)
\*   timestamp result[0].timestamp, Null when the member is absent
\*   close     result[0].indicators.quote[0].close, Null when absent; each
\*             entry is Null (JSON null) or Some(price)

\* messages of the source, in ASCII
ERR_INVALID_TICKER == "invalid ticker"

ERR_NO_DATA == "no data"

ERR_NO_CHART_DATA == "no chart data"

ERR_NO_VALID_CLOSE == "no valid close"

\* message of the TypeError raised by reading a property of null
ERR_TYPE == "Cannot read properties of null"

\* { ...nullResult, error }
NullResult(error) ==
    [price |-> Null, actualDate |-> Null, change1d |-> Null, change7d |-> Null,
     change14d |-> Null, change30d |-> Null, change180d |-> Null,
     error |-> error]

\* Response#ok
ResponseOk(status) == status >= 200 /\ status <= 299

\* variant: the ticker is not looked at before the request is sent
fetchIssuesRequestAlways(ticker) == TRUE

\* `if (!ticker) return ...` precedes the request: a ticker that is null or
\* empty (both are the empty sequence here) issues no request
fetchIssuesRequest(ticker) == ticker # << >>

RECURSIVE FilterValid(_, _, _)
\* the loop that pushes { ts, close } for every present close, from index i on
FilterValid(timestamps, closes, i) ==
    IF i > Len(timestamps) THEN << >>
    ELSE (IF ClosePresent(closes, i)
          THEN << [ts |-> timestamps[i], close |-> Val(closes[i])] >>
          ELSE << >>) \o FilterValid(timestamps, closes, i + 1)

RECURSIVE InsertByTs(_, _)
\* insert e after every element whose ts is <= e.ts (the sort is stable)
InsertByTs(sorted, e) ==
    IF sorted = << >> THEN << e >>
    ELSE IF sorted[Len(sorted)].ts <= e.ts THEN Append(sorted, e)
    ELSE Append(InsertByTs(SubSeq(sorted, 1, Len(sorted) - 1), e),
                sorted[Len(sorted)])

RECURSIVE SortByTs(_)
\* tradingDays.sort((a, b) => a.ts - b.ts)
SortByTs(days) ==
    IF days = << >> THEN << >>
    ELSE InsertByTs(SortByTs(SubSeq(days, 1, Len(days) - 1)), days[Len(days)])

\* tradingDays after the filter and the sort
TradingDays(timestamps, closes) == SortByTs(FilterValid(timestamps, closes, 1))

RECURSIVE ScanBack(_, _, _)
\* the backward loop looking for tradingDays[i].ts <= targetTs; 0 stands for -1.
\* targetTs is Null when it is NaN, and every comparison with NaN is false
ScanBack(tradingDays, targetTs, i) ==
    IF i < 1 THEN 0
    ELSE IF ~IsNull(targetTs) /\ tradingDays[i].ts <= Val(targetTs) THEN i
    ELSE ScanBack(tradingDays, targetTs, i - 1)

\* variant: without an observation on or before the target the last one is taken
AnchorIdxFallbackLast(tradingDays, targetTs) ==
    LET found == ScanBack(tradingDays, targetTs, Len(tradingDays))
    IN  IF found = 0 THEN Len(tradingDays) ELSE found

\* currentIdx (1-based) for a non-empty tradingDays
AnchorIdx(tradingDays, targetTs) ==
    LET found == ScanBack(tradingDays, targetTs, Len(tradingDays))
    IN  IF found = 0 THEN 1 ELSE found

\* variant: the one-day lookback is a calendar-offset lookup like the others
ResolveAnchorCalendarDay(tradingDays, timestamps, closes, targetTs, tzMin) ==
    LET currentIdx   == AnchorIdx(tradingDays, targetTs)
        currentPrice == Some(tradingDays[currentIdx].close)
        actualTs     == tradingDays[currentIdx].ts
        price1d      == findClosestPrice(timestamps, closes, actualTs - DAY)
        price7d      == findClosestPrice(timestamps, closes, actualTs - 7 * DAY)
        price14d     == findClosestPrice(timestamps, closes, actualTs - 14 * DAY)
        price30d     == findClosestPrice(timestamps, closes, actualTs - 30 * DAY)
        price180d    == findClosestPrice(timestamps, closes, actualTs - 180 * DAY)
    IN  [price      |-> Some(MathRound(Val(currentPrice) * 10, 100)),
         actualDate |-> Some(FormatYMD(LocalCivil(actualTs, tzMin))),
         change1d   |-> calcChangeRate(currentPrice, price1d),
         change7d   |-> calcChangeRate(currentPrice, price7d),
         change14d  |-> calcChangeRate(currentPrice, price14d),
         change30d  |-> calcChangeRate(currentPrice, price30d),
         change180d |-> calcChangeRate(currentPrice, price180d),
         error      |-> Null]

\* the part of fetchClosingPrice from the anchor search on, for a non-empty
\* tradingDays
ResolveAnchor(tradingDays, timestamps, closes, targetTs, tzMin) ==
    LET currentIdx   == AnchorIdx(tradingDays, targetTs)
        currentPrice == Some(tradingDays[currentIdx].close)
        actualTs     == tradingDays[currentIdx].ts
        price1d      == IF currentIdx >= 2
                        THEN Some(tradingDays[currentIdx - 1].close)
                        ELSE Null
        price7d      == findClosestPrice(timestamps, closes, actualTs - 7 * DAY)
        price14d     == findClosestPrice(timestamps, closes, actualTs - 14 * DAY)
        price30d     == findClosestPrice(timestamps, closes, actualTs - 30 * DAY)
        price180d    == findClosestPrice(timestamps, closes, actualTs - 180 * DAY)
    IN  [price      |-> Some(MathRound(Val(currentPrice) * 10, 100)),
         actualDate |-> Some(FormatYMD(LocalCivil(actualTs, tzMin))),
         change1d   |-> calcChangeRate(currentPrice, price1d),
         change7d   |-> calcChangeRate(currentPrice, price7d),
         change14d  |-> calcChangeRate(currentPrice, price14d),
         change30d  |-> calcChangeRate(currentPrice, price30d),
         change180d |-> calcChangeRate(currentPrice, price180d),
         error      |-> Null]

\* variant: an empty tradingDays is reported without an error message
ResolveSeriesNoMessage(timestamps, closes, targetTs, tzMin) ==
    LET tradingDays == TradingDays(timestamps, closes) IN
    IF Len(tradingDays) = 0 THEN NullResult(Null)
    ELSE ResolveAnchor(tradingDays, timestamps, closes, targetTs, tzMin)

\* the part of fetchClosingPrice after the empty-array checks
ResolveSeries(timestamps, closes, targetTs, tzMin) ==
    LET tradingDays == TradingDays(timestamps, closes) IN
    IF Len(tradingDays) = 0 THEN NullResult(Some(ERR_NO_VALID_CLOSE))
    ELSE ResolveAnchor(tradingDays, timestamps, closes, targetTs, tzMin)

\* outcome of a block of code: it returns value, or throws (thrown = Some(msg))
Returns(value) == [thrown |-> Null, value |-> value]

Throws(msg) == [thrown |-> Some(msg), value |-> NullResult(Null)]

\* the try block of fetchClosingPrice when the provider answers resp
fetchTry(ticker, targetDateStr, resp, tzMin) ==
    IF resp.net = "reject" THEN Throws(resp.msg)
    ELSE IF ~ResponseOk(resp.status)
         THEN Returns(NullResult(Some("HTTP " \o ToString(resp.status))))
    ELSE IF resp.json = "invalid" THEN Throws(resp.msg)
    ELSE IF resp.json = "null" THEN Throws(ERR_TYPE)
    ELSE IF resp.json \in {"nochart", "noresult", "emptyresult"}
         THEN Returns(NullResult(Some(ERR_NO_DATA)))
    ELSE IF resp.json = "nullelem" THEN Throws(ERR_TYPE)
    ELSE
      LET timestamps == IF IsNull(resp.timestamp) THEN << >> ELSE Val(resp.timestamp)
          closes     == IF IsNull(resp.close) THEN << >> ELSE Val(resp.close)
      IN  IF Len(timestamps) = 0 \/ Len(closes) = 0
          THEN Returns(NullResult(Some(ERR_NO_CHART_DATA)))
          ELSE Returns(ResolveSeries(timestamps, closes,
                                     parseDateValue(targetDateStr, tzMin), tzMin))

\* variant: no catch clause, the exception leaves fetchClosingPrice
fetchCatchNothing(attempt) == attempt

\* catch (err) { return { ...nullResult, error: err.message } }
fetchCatch(attempt) ==
    IF IsNull(attempt.thrown) THEN attempt
    ELSE Returns(NullResult(attempt.thrown))

\* how the promise of fetchClosingPrice(ticker, targetDateStr) settles when the
\* provider answers resp (resp is not consulted for a null or empty ticker):
\* fulfilled with .value, or rejected when .thrown is not Null
fetchClosingPrice(ticker, targetDateStr, resp, tzMin) ==
    IF ~fetchIssuesRequest(ticker)
    THEN Returns(NullResult(Some(ERR_INVALID_TICKER)))
    ELSE fetchCatch(fetchTry(ticker, targetDateStr, resp, tzMin))

\* ------------------------------------------------------------------------
\* Spreadsheet and stock codes (parseXLS, toTicker, getUniqueStocks)
\* ------------------------------------------------------------------------
\* characters accepted by /^[A-Za-z0-9]+$/ among those the model uses
AlphaNum == {"0", "1", "2", "3", "4", "5", "6", "7", "8", "9", "A", "n"}

RECURSIVE TrimLeft(_)
TrimLeft(s) == IF s # << >> /\ s[1] = " " THEN TrimLeft(Tail(s)) ELSE s

RECURSIVE TrimRight(_)
TrimRight(s) ==
    IF s # << >> /\ s[Len(s)] = " " THEN TrimRight(SubSeq(s, 1, Len(s) - 1)) ELSE s

\* String#trim
Trim(s) == TrimRight(TrimLeft(s))

\* toTicker: the first four characters and ".T"; the empty sequence is null
toTicker(rawCode) ==
    LET code == Trim(rawCode) IN
    IF Len(code) < 4 THEN << >>
    ELSE LET ticker == SubSeq(code, 1, 4) IN
         IF \E k \in 1..4 : ticker[k] \notin AlphaNum THEN << >>
         ELSE ticker \o << ".", "T" >>

RECURSIVE UniqueStocksFrom(_, _, _)
\* the loop of getUniqueStocks from row k on; seen is the Map's values in
\* insertion order
UniqueStocksFrom(rows, k, seen) ==
    IF k > Len(rows) THEN seen
    ELSE LET row     == rows[k]
             rawCode == IF Len(row) < COL_CODE THEN << >> ELSE Trim(row[COL_CODE])
             ticker  == toTicker(rawCode)
             name    == IF Len(row) < COL_NAME THEN << >> ELSE Trim(row[COL_NAME])
             skip    == \/ Len(row) < COL_CODE
                        \/ rawCode = << >>
                        \/ \E j \in 1..Len(seen) : seen[j].rawCode = rawCode
                        \/ ticker = << >>
         IN  UniqueStocksFrom(rows, k + 1,
                 IF skip THEN seen
                 ELSE Append(seen, [ticker |-> ticker, rawCode |-> rawCode,
                                    name |-> name]))

getUniqueStocks(rows) == UniqueStocksFrom(rows, 1, << >>)

RECURSIVE NonEmptyRows(_)
\* jsonData.slice(1).filter(row => row.some(cell => cell !== ''))
NonEmptyRows(rows) ==
    IF rows = << >> THEN << >>
    ELSE (IF \E k \in 1..Len(rows[1]) : rows[1][k] # << >>
          THEN << rows[1] >> ELSE << >>) \o NonEmptyRows(Tail(rows))

\* parseXLS on a workbook whose first sheet is jsonData (header row first):
\* Null when it throws (fewer than two rows)
parseXLS(jsonData) ==
    IF Len(jsonData) < 2 THEN Null
    ELSE Some([header |-> [k \in 1..Len(jsonData[1]) |-> Trim(jsonData[1][k])],
               rows   |-> NonEmptyRows(Tail(jsonData))])

\* ------------------------------------------------------------------------
\* Environment: the files the user can pick, the provider, the wall clock
\* ------------------------------------------------------------------------
Digit(k) == << "0", "1", "2", "3", "4", "5", "6", "7", "8", "9" >>[k + 1]

\* the n-th stock code of a spreadsheet whose codes start with prefix
Code(prefix, n) == prefix \o << Digit((n \div 10) % 10), Digit(n % 10) >>

LongPrefix == << "1", "3" >>

ShortPrefix == << "7", "2" >>

\* codes of the instruments the provider answers with HTTP 500
FailPrefix == << "9", "0" >>

DateCell == << "2", "5" >>

HeaderRow == << << "A" >>, << "A", " " >>, << "n" >> >>

Row(code, name) == << DateCell, code, name >>

\* n distinct codes, then a repeated code, a code too short for a ticker in a
\* two-cell row, and an empty row
Sheet(prefix, n) ==
    << HeaderRow >>
    \o [k \in 1..n |-> Row(Code(prefix, k), << "n", Digit(k % 10) >>)]
    \o << Row(Code(prefix, 1), << "n", "1" >>),
          << DateCell, prefix >>,
          << << >>, << >>, << >> >> >>

\* exactly BATCH_SIZE stocks: padded, five-character and plain codes, and one
\* code with a character a ticker cannot have
OneBatchSheet ==
    << HeaderRow,
       Row(<< " ", "6", "7", "5", "8", " " >>, << "n", "1", " " >>),
       Row(<< "6", "7", "5", "-" >>, << "n", "2" >>),
       Row(<< "6", "7", "5", "8", "0" >>, << "n", "3" >>) >>
    \o [k \in 1..(BATCH_SIZE - 2) |-> Row(Code(<< "6", "8" >>, k), << "n", Digit(k) >>)]

\* a sheet without any usable code
NoStockSheet == << HeaderRow, Row(<< "1", "3" >>, << "n" >>) >>

File(ext, sheet) == [ext |-> ext, sheet |-> sheet]

\* the files at the user's hand: short runs, and the ways a file is refused
VariedFiles ==
    { File("xls", Sheet(ShortPrefix, ShortStocks)),
      File("xlsx", OneBatchSheet),
      File("xls", NoStockSheet),
      File("xls", << HeaderRow >>),
      File("csv", OneBatchSheet) }

\* the files at the user's hand: one long run
LongFiles ==
    { File("xls", Sheet(LongPrefix, LongStocks)),
      File("xls", NoStockSheet) }

\* the files at the user's hand: one run in which every instrument fails
OrderFiles ==
    { File("xls", Sheet(FailPrefix, OrderStocks)),
      File("xls", NoStockSheet) }

\* the files at the user's hand: one run of two batches
ClockFiles ==
    { File("xls", Sheet(ShortPrefix, ShortStocks)),
      File("xls", NoStockSheet) }

\* day number of the day the exploration starts in (6 March 2025)
Day0 == 366 + 31 + 28 + 5

\* daily bars are stamped 00:00 UTC (09:00 JST) of the trading day
BarTs(day) == day * DAY

Response(net, msg, status, json, timestamp, close) ==
    [net |-> net, msg |-> msg, status |-> status, json |-> json,
     timestamp |-> timestamp, close |-> close]

RespGood ==
    Response("ok", "", 200, "chart",
        Some(<< BarTs(Day0 - 181), BarTs(Day0 - 8), BarTs(Day0 - 2),
                BarTs(Day0 - 1), BarTs(Day0) >>),
        Some(<< Some(90000), Some(99000), Null, Some(101050), Some(102000) >>))

RespAllNull ==
    Response("ok", "", 200, "chart",
        Some(<< BarTs(Day0 - 1), BarTs(Day0) >>), Some(<< Null, Null >>))

RespHttp500 == Response("ok", "", 500, "invalid", Null, Null)

RespRejected == Response("reject", "Failed to fetch", 0, "invalid", Null, Null)

\* what the provider may answer for a ticker
Responses(ticker) ==
    IF Len(ticker) >= 2 /\ SubSeq(ticker, 1, 2) = FailPrefix
    THEN {RespHttp500}
    ELSE IF ticker \in {toTicker(Code(LongPrefix, 3)), toTicker(Code(ShortPrefix, 2))}
    THEN {RespHttp500}
    ELSE IF ticker \in {toTicker(Code(LongPrefix, LongStocks - 1)),
                        toTicker(Code(ShortPrefix, 4))}
    THEN {RespAllNull}
    ELSE IF ticker \in {toTicker(Code(LongPrefix, LongStocks)),
                        toTicker(Code(ShortPrefix, ShortStocks))}
    THEN {RespRejected, RespGood}
    ELSE {RespGood}

\* instants the clock is observed at: 08:59:59, 09:00:00, 15:00:00 and
\* 24:00:00 JST of Day0, then the same of the following days
TimePoint(k) ==
    (Day0 + (k \div 4)) * DAY - 9 * 3600
    + << 9 * 3600 - 1, 9 * 3600, 15 * 3600, 24 * 3600 >>[(k % 4) + 1]

\* getTimezoneOffset() of a browser in Japan
TzJapan == 0 - 540

\* ------------------------------------------------------------------------
\* State
\* ------------------------------------------------------------------------
VARIABLES
    \* module-level state of app.js
    xlsData,          \* Null or Some([header, rows])
    closingPrices,    \* rawCode -> PriceResult
    errorMessages,    \* sequence of [code, name, ticker, error]
    isFetching,
    priceTargetDate,  \* Null or Some(YYYYMMDD)
    \* the part of the page the handlers read or write
    dom,              \* [dropZoneShown, fileInfoShown, fetchBtnDisabled,
                      \*  downloadBtnDisabled, progressLabel]
    \* the activation of fetchAllPrices (at most one, see FetchBtnClick)
    pc,               \* "idle", "batch" (await Promise.all), "sleep" (await
                      \* sleep) or "failed" (Promise.all rejected)
    stocks,           \* its argument
    targetDateStr,    \* its local constant, Null before the first run
    total,
    completed,
    i,                \* loop variable (0-based offset of the batch)
    inflight,         \* fetchClosingPrice calls issued and not yet settled
    timer,            \* Null or Some(delay) of the pending setTimeout
    \* environment
    disk,             \* the files the user can pick
    reads,            \* files whose FileReader has not fired onload yet
    now,              \* wall clock
    clockEnd,         \* the last instant the clock is followed to
    tz,               \* getTimezoneOffset() of the browser
    \* history of the current run (not program state)
    progressLog,      \* arguments <<current, total>> of every updateProgress
    issued,           \* indices whose fetch has been started
    settled,          \* indices whose callback has run after the fetch
    writes,           \* rawCode -> number of writes into closingPrices
    batches,          \* batches started
    pauses,           \* sleeps started
    datesUsed,        \* reference dates passed to fetchClosingPrice
    activations,      \* fetchAllPrices calls that have not returned
    answers,          \* index -> the provider's answer to that call
    interrupted,      \* a file was removed or loaded since the run started
    consumed,         \* the last reading of the results map by the export or the table
    \* a single call of fetchClosingPrice observed in isolation
    probe

appVars == << xlsData, closingPrices, errorMessages, isFetching, priceTargetDate, dom >>

runVars == << pc, stocks, targetDateStr, total, completed, i, inflight, timer >>

envVars == << disk, reads, now, clockEnd, tz >>

histVars == << progressLog, issued, settled, writes, batches, pauses, datesUsed,
              activations, answers, interrupted, consumed >>

vars == << appVars, runVars, envVars, histVars, probe >>

\* ------------------------------------------------------------------------
\* Helpers of the actions
\* ------------------------------------------------------------------------
EmptyMap == << >>

\* variant: the write replaces the object, `obj = { [key]: value }`
MapPutAlone(map, key, value) == [k \in {key} |-> value]

\* obj[key] = value
MapPut(map, key, value) ==
    [k \in (DOMAIN map) \cup {key} |-> IF k = key THEN value ELSE map[k]]

\* JavaScript truthiness of an optional string
Truthy(o) == ~IsNull(o) /\ Val(o) # ""

Min(a, b) == IF a < b THEN a ELSE b

\* variant: every batch takes the reference date from the clock again
BatchCallsReadingClock(stks, i0, dateStr) ==
    { [idx |-> k, stock |-> stks[k], targetDateStr |-> getTargetDate(now, tz)]
        : k \in (i0 + 1)..Min(i0 + BATCH_SIZE, Len(stks)) }

\* variant: the slice is one instrument longer than the loop's step
BatchCallsWide(stks, i0, dateStr) ==
    { [idx |-> k, stock |-> stks[k], targetDateStr |-> dateStr]
        : k \in (i0 + 1)..Min(i0 + BATCH_SIZE + 1, Len(stks)) }

\* the calls started by `batch.map(async (stock) => ...)` for the batch at
\* offset i0: one fetchClosingPrice(stock.ticker, targetDateStr) per member
BatchCalls(stks, i0, dateStr) ==
    { [idx |-> k, stock |-> stks[k], targetDateStr |-> dateStr]
        : k \in (i0 + 1)..Min(i0 + BATCH_SIZE, Len(stks)) }

\* variant: the pacing sleep follows every batch, the last one included
MoreBatchesAlways(i0, n) == TRUE

\* `if (i + BATCH_SIZE < total)` after a batch has been joined
MoreBatches(i0, n) == i0 + BATCH_SIZE < n

\* variant: the join gives up on the last call of the batch
BatchJoinedButOne(left) == Cardinality(left) <= 1

\* variant: the batch is left as soon as one call settles (a race, not a join)
BatchJoinedByFirst(left) == TRUE

\* Promise.all(promises) resolves once no call of the batch is left unsettled
BatchJoined(left) == left = {}

\* variant: the counter advances once per batch, when the batch is joined
CompletedAfterBatch(count, left) ==
    IF left = {} THEN count + BATCH_SIZE ELSE count

\* `completed++` in the callback of one instrument; left are the calls of the
\* batch still in flight
CompletedAfter(count, left) == count + 1

\* variant: a run starts on the map the previous run left
RunStartResultsKept(previous) == previous

\* `closingPrices = {}` at the start of fetchAllPrices
RunStartResults(previous) == EmptyMap

\* variant: errors are not logged
LogErrorSkipped(errors, stock, result) == errors

\* `if (result.error) errorMessages.push({ code, name, ticker, error })`
LogError(errors, stock, result) ==
    IF Truthy(result.error)
    THEN Append(errors, [code   |-> stock.rawCode,
                         name   |-> stock.name,
                         ticker |-> IF stock.ticker = << >>
                                    THEN << "N", "/", "A" >>
                                    ELSE stock.ticker,
                         error  |-> Val(result.error)])
    ELSE errors

\* variant: no progress report after the loop
FinalProgressNone(n) == << >>

\* the updateProgress calls fetchAllPrices makes after its loop
FinalProgress(n) == << << n, n >> >>

ProbeRecord(phase, ticker, dateStr, resp, requests, outcome) ==
    [phase |-> phase, ticker |-> ticker, targetDateStr |-> dateStr, resp |-> resp,
     requests |-> requests, outcome |-> outcome]

\* no isolated call is being observed
ProbeIdle ==
    ProbeRecord("none", << >>, 0, Response("reject", "", 0, "invalid", Null, Null),
                0, Returns(NullResult(Null)))

\* the state of the page once the script has run
Loaded ==
    /\ xlsData = Null
    /\ closingPrices = EmptyMap
    /\ errorMessages = << >>
    /\ isFetching = FALSE
    /\ priceTargetDate = Null
    /\ dom = [dropZoneShown |-> TRUE, fileInfoShown |-> FALSE,
              fetchBtnDisabled |-> FALSE, downloadBtnDisabled |-> TRUE,
              progressLabel |-> << 0, 0 >>]
    /\ pc = "idle"
    /\ stocks = << >>
    /\ targetDateStr = Null
    /\ total = 0
    /\ completed = 0
    /\ i = 0
    /\ inflight = {}
    /\ timer = Null
    /\ reads = << >>
    /\ now = TimePoint(0)
    /\ tz = TzJapan
    /\ progressLog = << >>
    /\ issued = {}
    /\ settled = {}
    /\ writes = EmptyMap
    /\ batches = 0
    /\ pauses = 0
    /\ datesUsed = {}
    /\ activations = 0
    /\ answers = EmptyMap
    /\ interrupted = FALSE
    /\ consumed = Null

Init ==
    /\ Loaded
    /\ disk = VariedFiles
    /\ clockEnd = TimePoint(MaxTicks)
    /\ probe = ProbeIdle

InitLong ==
    /\ Loaded
    /\ disk = LongFiles
    /\ clockEnd = TimePoint(MaxTicks)
    /\ probe = ProbeIdle

\* one run of two batches with every kind of answer, and a file without stocks
InitLive ==
    /\ Loaded
    /\ disk = ClockFiles
    /\ clockEnd = TimePoint(MaxTicks)
    /\ probe = ProbeIdle

\* every instrument of the run fails, so that the error list shows the order
\* in which the whole batch settled
InitOrder ==
    /\ Loaded
    /\ disk = OrderFiles
    /\ clockEnd = TimePoint(MaxTicks)
    /\ probe = ProbeIdle

\* the page is followed from 08:59:59 JST across 09:00, 15:00 and midnight
InitClock ==
    /\ Loaded
    /\ disk = ClockFiles
    /\ clockEnd = TimePoint(ClockPoints)
    /\ probe = ProbeIdle

\* ------------------------------------------------------------------------
\* File handling
\* ------------------------------------------------------------------------
\* handleFile(file), from a drop on the drop zone or from the file dialog the
\* drop zone opens: a file that is not .xls/.xlsx is refused with an alert
HandleFile(file) ==
    /\ dom.dropZoneShown
    /\ Len(reads) < MaxPendingReads
    /\ reads' = IF file.ext \in {"xls", "xlsx"} THEN Append(reads, file) ELSE reads
    /\ UNCHANGED << appVars, runVars, disk, now, clockEnd, tz, histVars, probe >>

\* reader.onload of the k-th pending read
ReaderOnload(k) ==
    /\ k \in 1..Len(reads)
    /\ LET parsed == parseXLS(reads[k].sheet) IN
       /\ reads' = SubSeq(reads, 1, k - 1) \o SubSeq(reads, k + 1, Len(reads))
       /\ IF IsNull(parsed)
          THEN UNCHANGED appVars
          ELSE /\ xlsData' = parsed
               /\ closingPrices' = EmptyMap
               /\ errorMessages' = << >>
               /\ dom' = [dom EXCEPT !.dropZoneShown = FALSE,
                                     !.fileInfoShown = TRUE,
                                     !.downloadBtnDisabled = TRUE]
               /\ UNCHANGED << isFetching, priceTargetDate >>
       /\ interrupted' = (interrupted \/ (~IsNull(parsed) /\ progressLog # << >>))
    /\ UNCHANGED << runVars, disk, now, clockEnd, tz, progressLog, issued, settled,
                    writes, batches, pauses, datesUsed, activations, answers,
                    consumed, probe >>

\* resetFile, the click handler of the remove button in the file-info box
ResetFile ==
    /\ dom.fileInfoShown
    /\ xlsData' = Null
    /\ closingPrices' = EmptyMap
    /\ errorMessages' = << >>
    /\ dom' = [dom EXCEPT !.dropZoneShown = TRUE,
                          !.fileInfoShown = FALSE,
                          !.downloadBtnDisabled = TRUE]
    /\ interrupted' = (interrupted \/ progressLog # << >>)
    /\ UNCHANGED << isFetching, priceTargetDate, runVars, envVars, progressLog,
                    issued, settled, writes, batches, pauses, datesUsed,
                    activations, answers, consumed, probe >>

\* ------------------------------------------------------------------------
\* Batch orchestrator (fetch button, fetchAllPrices)
\* ------------------------------------------------------------------------
\* variant: the handler does not look at isFetching
ClickRejectedWithoutFile == IsNull(xlsData)

\* `if (!xlsData || isFetching) return;`
ClickRejected == IsNull(xlsData) \/ isFetching

\* The click handler of the fetch button. When it accepts the click it runs
\* fetchAllPrices(stocks) up to its first await: the state is reset, the
\* reference date is taken, and every fetch of the first batch is started.
FetchBtnClick ==
    \/ /\ ClickRejected
       /\ UNCHANGED vars
    \/ /\ ~ClickRejected
       /\ getUniqueStocks(Val(xlsData).rows) = << >>
       /\ UNCHANGED vars
    \/ /\ ~ClickRejected
       /\ LET stks    == getUniqueStocks(Val(xlsData).rows)
              dateStr == getTargetDate(now, tz)
              calls   == BatchCalls(stks, 0, dateStr)
          IN  /\ stks # << >>
              /\ isFetching' = TRUE
              /\ closingPrices' = RunStartResults(closingPrices)
              /\ errorMessages' = << >>
              /\ targetDateStr' = Some(dateStr)
              /\ priceTargetDate' = Some(dateStr)
              /\ stocks' = stks
              /\ total' = Len(stks)
              /\ completed' = 0
              /\ dom' = [dom EXCEPT !.progressLabel = << 0, Len(stks) >>,
                                    !.fetchBtnDisabled = TRUE]
              /\ i' = 0
              /\ inflight' = calls
              /\ pc' = "batch"
              /\ timer' = Null
              /\ progressLog' = << << 0, Len(stks) >> >>
              /\ issued' = { c.idx : c \in calls }
              /\ settled' = {}
              /\ writes' = EmptyMap
              /\ batches' = 1
              /\ pauses' = 0
              /\ datesUsed' = { c.targetDateStr : c \in calls }
              /\ activations' = activations + 1
              /\ answers' = EmptyMap
              /\ interrupted' = FALSE
       /\ UNCHANGED << xlsData, envVars, consumed, probe >>

\* One fetchClosingPrice call settles with the provider's answer resp, and the
\* rest of its batch.map callback runs: the result is stored, an error is
\* logged, progress is reported. When it was the last call of its batch,
\* Promise.all resolves and fetchAllPrices goes on in the same task: it starts
\* the pacing sleep, or, after the last batch, completes the run.
\* A rejected fetchClosingPrice promise would reject Promise.all instead.
Settle(c, resp) ==
    /\ c \in inflight
    /\ resp \in Responses(c.stock.ticker)
    /\ LET outcome == fetchClosingPrice(c.stock.ticker, c.targetDateStr, resp, tz)
           result  == outcome.value
           left    == inflight \ {c}
           joined  == BatchJoined(left) /\ pc = "batch"
           done    == joined /\ ~MoreBatches(i, total)
           pause   == joined /\ MoreBatches(i, total)
       IN  /\ inflight' = left
           /\ settled' = settled \cup {c.idx}
           /\ answers' = [k \in DOMAIN answers \cup {c.idx} |->
                             IF k = c.idx THEN resp ELSE answers[k]]
           /\ IF ~IsNull(outcome.thrown)
              THEN /\ pc' = "failed"
                   /\ UNCHANGED << closingPrices, errorMessages, completed, writes,
                                   progressLog, dom, isFetching, timer, pauses,
                                   activations >>
              ELSE /\ closingPrices' = MapPut(closingPrices, c.stock.rawCode, result)
                   /\ errorMessages' = LogError(errorMessages, c.stock, result)
                   /\ completed' = CompletedAfter(completed, left)
                   /\ writes' = MapPut(writes, c.stock.rawCode,
                                   IF c.stock.rawCode \in DOMAIN writes
                                   THEN writes[c.stock.rawCode] + 1 ELSE 1)
                   /\ progressLog' =
                        Append(progressLog,
                               << CompletedAfter(completed, left), total >>)
                        \o (IF done THEN FinalProgress(total) ELSE << >>)
                   /\ dom' = IF done
                             THEN [dom EXCEPT !.progressLabel = << total, total >>,
                                              !.fetchBtnDisabled = FALSE,
                                              !.downloadBtnDisabled = FALSE]
                             ELSE [dom EXCEPT !.progressLabel =
                                   << CompletedAfter(completed, left), total >>]
                   /\ isFetching' = IF done THEN FALSE ELSE isFetching
                   /\ pc' = IF done THEN "idle" ELSE IF pause THEN "sleep" ELSE pc
                   /\ timer' = IF pause THEN Some(BATCH_DELAY_MS) ELSE timer
                   /\ pauses' = IF pause THEN pauses + 1 ELSE pauses
                   /\ activations' = IF done THEN activations - 1 ELSE activations
    /\ UNCHANGED << xlsData, priceTargetDate, stocks, targetDateStr, total, i,
                    envVars, issued, batches, datesUsed, interrupted, consumed,
                    probe >>

\* The pacing timer fires: the loop advances and starts the next batch.
TimerFires ==
    /\ pc = "sleep"
    /\ ~IsNull(timer)
    /\ LET calls == BatchCalls(stocks, i + BATCH_SIZE, Val(targetDateStr)) IN
       /\ i' = i + BATCH_SIZE
       /\ inflight' = inflight \cup calls
       /\ issued' = issued \cup { c.idx : c \in calls }
       /\ datesUsed' = datesUsed \cup { c.targetDateStr : c \in calls }
       /\ batches' = batches + 1
    /\ pc' = "batch"
    /\ timer' = Null
    /\ UNCHANGED << appVars, stocks, targetDateStr, total, completed, envVars,
                    progressLog, settled, writes, pauses, activations, answers,
                    interrupted, consumed, probe >>

\* The wall clock reaches the next observed instant.
Tick ==
    /\ now < clockEnd
    /\ \E k \in 1..(MaxTicks + ClockPoints) :
          now = TimePoint(k - 1) /\ now' = TimePoint(k)
    /\ UNCHANGED << appVars, runVars, disk, reads, clockEnd, tz, histVars, probe >>

Next ==
    \/ \E file \in disk : HandleFile(file)
    \/ \E k \in 1..MaxPendingReads : ReaderOnload(k)
    \/ ResetFile
    \/ FetchBtnClick
    \/ \E c \in inflight : \E resp \in Responses(c.stock.ticker) : Settle(c, resp)
    \/ TimerFires
    \/ Tick

Spec == Init /\ [][Next]_vars

\* ------------------------------------------------------------------------
\* Result consumers: CSV export and table rendering
\* ------------------------------------------------------------------------
\* what a consumer finds when it reads closingPrices: whether a run is in
\* progress, and whether the map holds results for some but not all of the
\* instruments of the run
Reading(by) ==
    [by      |-> by,
     running |-> isFetching,
     partial |-> /\ DOMAIN closingPrices # {}
                 /\ DOMAIN closingPrices # { stocks[k].rawCode : k \in 1..Len(stocks) }]

\* A click on the download button, which takes clicks only while enabled:
\* downloadCSV calls generateOutputCSV, which returns '' without a file and
\* otherwise reads closingPrices[code] for every row.
DownloadBtnClick ==
    /\ ~dom.downloadBtnDisabled
    /\ consumed' = IF IsNull(xlsData) THEN consumed ELSE Some(Reading("csv"))
    /\ UNCHANGED << appVars, runVars, envVars, progressLog, issued, settled, writes,
                    batches, pauses, datesUsed, activations, answers, interrupted,
                    probe >>

\* A click on a header cell of the table. The table section is visible, with
\* the headers renderTable gave it, from the loading of a file (reader.onload)
\* to its removal (resetFile), that is while xlsData is set. The handler
\* changes the sort order and calls renderTable, which reads closingPrices.
HeaderClick ==
    /\ ~IsNull(xlsData)
    /\ consumed' = Some(Reading("table"))
    /\ UNCHANGED << appVars, runVars, envVars, progressLog, issued, settled, writes,
                    batches, pauses, datesUsed, activations, answers, interrupted,
                    probe >>

\* The consumers change nothing the other handlers read, so the
\* specifications above, which do not observe them, leave them out.
NextConsumers ==
    \/ Next
    \/ DownloadBtnClick
    \/ HeaderClick

SpecLong == InitLong /\ [][Next]_vars

SpecClock == InitClock /\ [][Next]_vars

SpecOrder == InitOrder /\ [][Next]_vars

SpecConsumers == InitLive /\ [][NextConsumers]_vars

\* some call in flight settles
SettleSome ==
    \E c \in inflight : \E resp \in Responses(c.stock.ticker) : Settle(c, resp)

\* ENABLED <<SettleSome>>_vars written out: Settle has no guard but its two
\* memberships, Responses(ticker) is never empty, and a settlement always
\* removes its call from inflight
SettleEnabled == inflight # {}

\* WF_vars(SettleSome) with its enabling condition written out
SettleFair == []<>(~SettleEnabled) \/ []<><<SettleSome>>_vars

\* every issued request eventually settles (the network layer answers or fails
\* each fetch) and every pacing timer fires (setTimeout of sleep)
SpecLive == InitLive /\ [][Next]_vars /\ SettleFair /\ WF_vars(TimerFires)

\* a call in flight other than the one of instrument HungIdx settles
SettleOther ==
    \E c \in inflight : \E resp \in Responses(c.stock.ticker) :
       c.idx # HungIdx /\ Settle(c, resp)

\* ENABLED <<SettleOther>>_vars written out, as for SettleSome
SettleOtherEnabled == \E c \in inflight : c.idx # HungIdx

\* WF_vars(SettleOther) with its enabling condition written out
SettleOtherFair == []<>(~SettleOtherEnabled) \/ []<><<SettleOther>>_vars

\* fetch has no timeout: the network layer answers or fails every request but,
\* possibly, the one of instrument HungIdx, which may stay pending for ever
SpecHung == InitLive /\ [][Next]_vars /\ SettleOtherFair /\ WF_vars(TimerFires)

\* ------------------------------------------------------------------------
\* One call of fetchClosingPrice, for every bounded provider answer
\* ------------------------------------------------------------------------
SeqsUpTo(S, n) == UNION { [1..l -> S] : l \in 0..n }

\* bars on either side of the reference dates, one of them seven days before
\* another
ProbeTimestamps == { BarTs(Day0 - 8), BarTs(Day0 - 1), BarTs(Day0 + 1) }

ProbeCloses == { Null, Some(0), Some(10050), Some(9995) }

\* the close array is as long as the timestamp array or one entry shorter
ProbeCharts ==
    { Response("ok", "", 200, "chart", Some(ts), Some(cl))
        : ts \in SeqsUpTo(ProbeTimestamps, MaxLen),
          cl \in SeqsUpTo(ProbeCloses, MaxLen) }

ProbeResponses ==
    { RespRejected,
      RespHttp500,
      Response("ok", "", 404, "chart", Some(<< BarTs(Day0) >>), Some(<< Some(1) >>)),
      Response("ok", "Unexpected token < in JSON", 200, "invalid", Null, Null),
      Response("ok", "", 200, "null", Null, Null),
      Response("ok", "", 200, "nochart", Null, Null),
      Response("ok", "", 200, "noresult", Null, Null),
      Response("ok", "", 200, "emptyresult", Null, Null),
      Response("ok", "", 200, "nullelem", Null, Null),
      Response("ok", "", 200, "chart", Null, Some(<< Some(1) >>)),
      Response("ok", "", 200, "chart", Some(<< BarTs(Day0) >>), Null) }
    \cup { r \in ProbeCharts :
             Len(Val(r.close)) \in { Len(Val(r.timestamp)), Len(Val(r.timestamp)) - 1 } }

\* reference dates: on and before the bars, and a value that is no date
ProbeDates ==
    { FormatYMD(CivilFromDays(Day0)), FormatYMD(CivilFromDays(Day0 - 8)), 0 }

ProbeTickers == { << >>, toTicker(Code(LongPrefix, 1)) }

InitResolver ==
    /\ Loaded
    /\ disk = {}
    /\ clockEnd = TimePoint(0)
    /\ \E ticker \in ProbeTickers, dateStr \in ProbeDates, resp \in ProbeResponses :
         probe = ProbeRecord("start", ticker, dateStr, resp, 0,
                             Returns(NullResult(Null)))

ProbeOutcome == fetchClosingPrice(probe.ticker, probe.targetDateStr, probe.resp, tz)

\* fetchClosingPrice is called: it returns at once for a null or empty ticker,
\* and sends the request otherwise
ProbeCall ==
    /\ probe.phase = "start"
    /\ probe' = IF fetchIssuesRequest(probe.ticker)
                THEN [probe EXCEPT !.phase = "waiting", !.requests = 1]
                ELSE [probe EXCEPT !.phase = "settled", !.outcome = ProbeOutcome]
    /\ UNCHANGED << appVars, runVars, envVars, histVars >>

\* the provider answers and the promise settles
ProbeSettle ==
    /\ probe.phase = "waiting"
    /\ probe' = [probe EXCEPT !.phase = "settled", !.outcome = ProbeOutcome]
    /\ UNCHANGED << appVars, runVars, envVars, histVars >>

NextResolver == ProbeCall \/ ProbeSettle

SpecResolver == InitResolver /\ [][NextResolver]_vars

\* ------------------------------------------------------------------------
\* The pure functions, each called once on every bounded input
\* ------------------------------------------------------------------------
\* JST calendar days given by their day number n, their date ymd and the date
\* prev of the day before: an ordinary day, the first day of a year, and the
\* first of March in a leap year and in a common year
JstDays ==
    { [n |-> Day0,     ymd |-> 20250306, prev |-> 20250305],
      [n |-> 366,      ymd |-> 20250101, prev |-> 20241231],
      [n |-> 31 + 29,  ymd |-> 20240301, prev |-> 20240229],
      [n |-> 366 + 59, ymd |-> 20250301, prev |-> 20250228] }

\* minutes of the JST day: midnight, 08:59, 09:00, 10:30, 14:59, 15:00, 16:00
\* and 23:59
JstMinutes == { 0, 539, 540, 630, 899, 900, 960, 1439 }

\* seconds within the minute
JstSeconds == { 0, 59 }

\* getTimezoneOffset() of the browser: Japan, UTC, New York in winter
Zones == { TzJapan, 0, 300 }

\* the instant at which the JST wall clock shows minute m, second sec of day n
JstInstant(n, m, sec) == n * DAY + m * 60 + sec - 9 * 3600

FnCall(fn, args) == [phase |-> "start", fn |-> fn, args |-> args, result |-> Null]

DateCalls ==
    { FnCall("getTargetDate",
             [day |-> d, minute |-> m, now |-> JstInstant(d.n, m, sec), tz |-> z])
        : d \in JstDays, m \in JstMinutes, sec \in JstSeconds, z \in Zones }

\* prices in hundredths of a yen, null included; 3100 against 3200 and 3300
\* against 3200 are changes of exactly -312.5 and +312.5 hundredths of a percent
CalcCurrents == { Null, Some(0), Some(3100), Some(3300), Some(9500), Some(11000),
                  Some(19999) }

CalcPasts == { Null, Some(0), Some(3200), Some(10000), Some(20000) }

CalcCalls ==
    { FnCall("calcChangeRate", [currentPrice |-> c, pastPrice |-> q])
        : c \in CalcCurrents, q \in CalcPasts }

\* raw provider arrays in any order, with repeated timestamps and absent
\* closes, and targets before, on, between and after the timestamps
LookupTimestamps == { 100, 200, 300 }

LookupCloses == { Null, Some(1000), Some(2000) }

LookupTargets == { 50, 200, 250, 350 }

LookupCalls ==
    { FnCall("findClosestPrice", [timestamps |-> ts, closes |-> cl, targetTs |-> t])
        : ts \in SeqsUpTo(LookupTimestamps, MaxLen),
          cl \in SeqsUpTo(LookupCloses, MaxLen),
          t \in LookupTargets }

FnCalls == DateCalls \cup CalcCalls \cup LookupCalls

InitFunctions ==
    /\ Loaded
    /\ disk = {}
    /\ clockEnd = TimePoint(0)
    /\ probe \in FnCalls

\* const targetDateStr = getTargetDate()
CallGetTargetDate ==
    /\ probe.phase = "start"
    /\ probe.fn = "getTargetDate"
    /\ probe' = [probe EXCEPT !.phase = "done",
                              !.result = getTargetDate(probe.args.now, probe.args.tz)]
    /\ UNCHANGED << appVars, runVars, envVars, histVars >>

\* calcChangeRate(currentPrice, pastPrice)
CallCalcChangeRate ==
    /\ probe.phase = "start"
    /\ probe.fn = "calcChangeRate"
    /\ probe' = [probe EXCEPT !.phase = "done",
                              !.result = calcChangeRate(probe.args.currentPrice,
                                                        probe.args.pastPrice)]
    /\ UNCHANGED << appVars, runVars, envVars, histVars >>

\* findClosestPrice(timestamps, closes, targetTs)
CallFindClosestPrice ==
    /\ probe.phase = "start"
    /\ probe.fn = "findClosestPrice"
    /\ probe' = [probe EXCEPT !.phase = "done",
                              !.result = findClosestPrice(probe.args.timestamps,
                                                          probe.args.closes,
                                                          probe.args.targetTs)]
    /\ UNCHANGED << appVars, runVars, envVars, histVars >>

NextFunctions ==
    \/ CallGetTargetDate
    \/ CallCalcChangeRate
    \/ CallFindClosestPrice

SpecFunctions == InitFunctions /\ [][NextFunctions]_vars

\* ------------------------------------------------------------------------
\* Properties
\* ------------------------------------------------------------------------
\* a run has completed and no later run has started
RunCompleted == ~isFetching /\ progressLog # << >>

RunCodes == { stocks[k].rawCode : k \in 1..Len(stocks) }

BatchOf(k) == (k - 1) \div BATCH_SIZE

CeilDiv(n, d) == (n + d - 1) \div d

HasPrice(code) == ~IsNull(closingPrices[code].price)

\* C1: at most one activation of fetchAllPrices exists at any time, and a click
\* on the fetch button while isFetching is true starts nothing and leaves the
\* results map, the error list, the reference date and the run untouched.
C1_SingleRun ==
    /\ [](activations <= 1 /\ (isFetching <=> activations = 1))
    /\ [][(isFetching /\ FetchBtnClick)
            => UNCHANGED << closingPrices, errorMessages, priceTargetDate,
                            runVars, histVars >>]_vars

\* a run is under way with results partly written: a click is rejected here
C1_Witness ==
    /\ isFetching
    /\ ~IsNull(xlsData)
    /\ completed >= 1
    /\ inflight # {}
    /\ dom.fetchBtnDisabled

\* C2: fetches are started batch by batch in input order; no fetch of a batch
\* is started before every instrument of the batches before it has settled,
\* and every fetch of a batch is started before any of that batch settles.
C2_JoinAllBarrier ==
    /\ settled \subseteq issued
    /\ \A k \in issued : \A j \in 1..k : j \in issued
    /\ \A k \in issued : \A j \in 1..total :
          BatchOf(j) < BatchOf(k) => j \in settled
    /\ \A k \in settled : \A j \in 1..total :
          BatchOf(j) = BatchOf(k) => j \in issued

\* the second batch is in flight, after every call of the first has settled
C2_Witness ==
    /\ batches >= 2
    /\ inflight # {}
    /\ issued # settled
    /\ 1..BATCH_SIZE \subseteq settled

\* C3: when a run completes, the results map holds exactly one PriceResult for
\* every instrument of the run and no other key, each written exactly once,
\* whatever user events were interleaved with the run.
C3_OneResultPerInstrument ==
    [][(isFetching /\ ~isFetching')
         => /\ DOMAIN closingPrices' = RunCodes
            /\ \A code \in RunCodes : code \in DOMAIN writes' /\ writes'[code] = 1]_vars

\* C4: with every request eventually settling and every pacing timer
\* eventually firing, every started run completes: isFetching is false again
\* and the progress shown is total/total.
C4_RunCompletes ==
    isFetching ~> (~isFetching /\ pc = "idle"
                   /\ dom.progressLabel = << total, total >>)

\* a run has completed with failures and successes
C4_Witness ==
    /\ RunCompleted
    /\ pc = "idle"
    /\ activations = 0
    /\ dom.progressLabel = << total, total >>
    /\ errorMessages # << >>
    /\ \E code \in DOMAIN closingPrices : HasPrice(code)

ErrorEntries(code) ==
    { k \in 1..Len(errorMessages) : errorMessages[k].code = code }

\* C5: a failing instrument stops no other instrument from being fetched and
\* written, and the error list holds exactly one entry for every stored
\* result with an error, none for a result without, and nothing else.
C5_ErrorIsolation ==
    /\ \A code \in DOMAIN closingPrices :
          Cardinality(ErrorEntries(code))
            = IF IsNull(closingPrices[code].error) THEN 0 ELSE 1
    /\ \A k \in 1..Len(errorMessages) :
          /\ errorMessages[k].code \in DOMAIN closingPrices
          /\ closingPrices[errorMessages[k].code].error = Some(errorMessages[k].error)
    /\ \A k \in settled :
          stocks[k].rawCode \in DOMAIN writes /\ writes[stocks[k].rawCode] = 1
    /\ RunCompleted => settled = 1..total

\* a completed run whose map is whole, with an HTTP 500 and another failure in
\* the error list and prices for other instruments
C5_Witness ==
    /\ RunCompleted
    /\ DOMAIN closingPrices = RunCodes
    /\ Len(errorMessages) >= 2
    /\ \E k \in 1..Len(errorMessages) : errorMessages[k].error = "HTTP 500"
    /\ \E code \in DOMAIN closingPrices : HasPrice(code)

\* C6 as stated: a run over N instruments reports progress N + 1 times.
C6_ProgressCallsAsClaimed ==
    RunCompleted => Len(progressLog) = total + 1

\* C6, amended: progress is reported N + 2 times: once at the start with 0,
\* once after each instrument settles with the count so far, and once more
\* after the last batch with N of N.
C6_ProgressCalls ==
    /\ isFetching =>
          /\ Len(progressLog) = completed + 1
          /\ \A k \in 1..Len(progressLog) : progressLog[k] = << k - 1, total >>
    /\ RunCompleted =>
          /\ Len(progressLog) = total + 2
          /\ \A k \in 1..(total + 1) : progressLog[k] = << k - 1, total >>
          /\ progressLog[total + 2] = << total, total >>

\* the long run has completed
C6_Witness ==
    /\ RunCompleted
    /\ total = LongStocks
    /\ Len(progressLog) = LongStocks + 2

\* C7: a run over N instruments starts ceil(N / BATCH_SIZE) batches, each of
\* BATCH_SIZE instruments but possibly the last, and sleeps once after each
\* batch that another batch follows, before that batch starts, and not after
\* the last batch.
C7_BatchesAndPauses ==
    /\ pc = "batch" =>
          /\ pauses = batches - 1
          /\ i = (batches - 1) * BATCH_SIZE
          /\ issued = 1..Min(i + BATCH_SIZE, total)
    /\ pc = "sleep" =>
          /\ pauses = batches
          /\ batches < CeilDiv(total, BATCH_SIZE)
          /\ inflight = {}
          /\ settled = issued
    /\ RunCompleted =>
          /\ batches = CeilDiv(total, BATCH_SIZE)
          /\ pauses = batches - 1

\* the long run has completed after three batches and two sleeps
C7_Witness ==
    /\ RunCompleted
    /\ total = LongStocks
    /\ batches = 3
    /\ pauses = 2

\* C8: the reference date is taken once, when the run starts, and every
\* fetchClosingPrice call of the run is given that date, also after the clock
\* has moved into or out of the trading session.
C8_OneReferenceDate ==
    isFetching =>
        /\ ~IsNull(targetDateStr)
        /\ priceTargetDate = targetDateStr
        /\ datesUsed = { Val(targetDateStr) }
        /\ \A c \in inflight : c.targetDateStr = Val(targetDateStr)

\* a later batch is in flight after the clock has gone past 09:00, 15:00 and
\* midnight JST, and the date the clock gives now is another one
C8_Witness ==
    /\ isFetching
    /\ batches >= 2
    /\ inflight # {}
    /\ now = TimePoint(ClockPoints)
    /\ Val(targetDateStr) = getTargetDate(TimePoint(0), tz)
    /\ getTargetDate(now, tz) # Val(targetDateStr)

ProbeSettled == probe.phase = "settled"

ProbeTimestampArray ==
    IF IsNull(probe.resp.timestamp) THEN << >> ELSE Val(probe.resp.timestamp)

ProbeCloseArray ==
    IF IsNull(probe.resp.close) THEN << >> ELSE Val(probe.resp.close)

\* the answer carries a chart whose arrays hold no pair with a present close
ProbeNoValidDay ==
    \A k \in 1..Len(ProbeTimestampArray) :
       k > Len(ProbeCloseArray) \/ ProbeCloseArray[k] = Null

\* the call is one the source counts as failed
ProbeFails ==
    \/ probe.ticker = << >>
    \/ probe.resp.net = "reject"
    \/ probe.resp.status < 200
    \/ probe.resp.status > 299
    \/ probe.resp.json # "chart"
    \/ ProbeTimestampArray = << >>
    \/ ProbeCloseArray = << >>
    \/ ProbeNoValidDay

\* C9: in every PriceResult of fetchClosingPrice, price is null exactly when
\* error is not; an instrument without a valid trading day has an error and
\* no price.
C9_PriceXorError ==
    (ProbeSettled /\ IsNull(probe.outcome.thrown)) =>
        /\ IsNull(probe.outcome.value.price) <=> ~IsNull(probe.outcome.value.error)
        /\ (probe.ticker # << >> /\ ProbeNoValidDay) =>
              /\ ~IsNull(probe.outcome.value.error)
              /\ IsNull(probe.outcome.value.price)

\* a chart with timestamps and closes, every close null
C9_Witness ==
    /\ ProbeSettled
    /\ probe.resp.json = "chart"
    /\ Len(ProbeTimestampArray) = MaxLen
    /\ Len(ProbeCloseArray) = MaxLen
    /\ ProbeNoValidDay
    /\ probe.outcome.value.error = Some(ERR_NO_VALID_CLOSE)

\* C10: fetchClosingPrice never rejects; on every failure path it resolves to a
\* PriceResult with an error and every other field null; for a null or empty
\* ticker it resolves without a request having been sent.
C10_NeverThrows ==
    ProbeSettled =>
        /\ IsNull(probe.outcome.thrown)
        /\ ProbeFails =>
              /\ ~IsNull(probe.outcome.value.error)
              /\ probe.outcome.value = NullResult(probe.outcome.value.error)
        /\ probe.ticker = << >> => probe.requests = 0

\* the request was rejected and the call resolved to an error result
C10_Witness ==
    /\ ProbeSettled
    /\ probe.ticker # << >>
    /\ probe.resp.net = "reject"
    /\ probe.requests = 1
    /\ probe.outcome.value = NullResult(Some("Failed to fetch"))

FnDone(fn) == probe.fn = fn /\ probe.phase = "done"

\* C11: for the instant at which the JST clock shows minute m of day D,
\* getTargetDate gives the date of D - 1 when 540 <= m < 900 and the date of D
\* otherwise, whatever the zone of the browser.
C11_TargetDate ==
    FnDone("getTargetDate") =>
        probe.result = IF probe.args.minute >= 540 /\ probe.args.minute < 900
                       THEN probe.args.day.prev
                       ELSE probe.args.day.ymd

\* 15:00:00 JST on 1 January, seen from a browser in New York: the day itself
C11_Witness ==
    /\ FnDone("getTargetDate")
    /\ probe.args.day.ymd = 20250101
    /\ probe.args.minute = 900
    /\ probe.args.tz = 300
    /\ probe.result = 20250101

\* n / d for d > 0 rounded to the nearest integer, halves away from zero
RoundHalfAway(n, d) ==
    IF n >= 0 THEN (2 * n + d) \div (2 * d) ELSE 0 - ((d - 2 * n) \div (2 * d))

\* C12: for a non-null current and a non-null, non-zero past, calcChangeRate is
\* (current - past) / past * 10000 rounded to the nearest integer with halves
\* away from zero, over 100 (here: in hundredths of a percent).
C12_HalfAwayFromZero ==
    (/\ FnDone("calcChangeRate")
     /\ ~IsNull(probe.args.currentPrice)
     /\ ~IsNull(probe.args.pastPrice)
     /\ Val(probe.args.pastPrice) # 0)
    => probe.result
         = Some(RoundHalfAway((Val(probe.args.currentPrice)
                                 - Val(probe.args.pastPrice)) * 10000,
                              Val(probe.args.pastPrice)))

\* indices of the raw arrays that hold a valid observation
LookupValid ==
    { k \in 1..Len(probe.args.timestamps) :
        k <= Len(probe.args.closes) /\ probe.args.closes[k] # Null }

LookupOnOrBefore ==
    { k \in LookupValid : probe.args.timestamps[k] <= probe.args.targetTs }

LookupDistance(k) == Abs(probe.args.timestamps[k] - probe.args.targetTs)

\* the lowest index among the observations of S nearest to the target
LookupNearestOf(S) ==
    CHOOSE k \in S :
        \A j \in S : \/ LookupDistance(k) < LookupDistance(j)
                      \/ (LookupDistance(k) = LookupDistance(j) /\ k <= j)

\* the lookup done on the filtered, sorted series instead of the raw arrays
LookupOnSeries ==
    LET series == TradingDays(probe.args.timestamps, probe.args.closes)
    IN  findClosestPrice([k \in 1..Len(series) |-> series[k].ts],
                         [k \in 1..Len(series) |-> Some(series[k].close)],
                         probe.args.targetTs)

\* C13: findClosestPrice returns the close of the valid observation with the
\* greatest timestamp <= target when there is one, else that of the valid
\* observation nearest to the target, null only without any valid observation;
\* among equally close observations the lowest raw index wins; and the result
\* is that of the same lookup on the filtered, sorted series.
C13_ClosestPrice ==
    FnDone("findClosestPrice") =>
        /\ probe.result =
              IF LookupOnOrBefore # {}
              THEN probe.args.closes[LookupNearestOf(LookupOnOrBefore)]
              ELSE IF LookupValid # {}
              THEN probe.args.closes[LookupNearestOf(LookupValid)]
              ELSE Null
        /\ probe.result = Null <=> LookupValid = {}
        /\ probe.result = LookupOnSeries

\* a repeated timestamp before the target with two closes: the first is returned
C13_Witness ==
    /\ FnDone("findClosestPrice")
    /\ probe.args.timestamps = << 200, 200, 300 >>
    /\ probe.args.closes = << Some(1000), Some(2000), Null >>
    /\ probe.args.targetTs = 250
    /\ probe.result = Some(1000)

\* the Trading-Day Series the observed call builds from the provider's chart
ProbeSeries == TradingDays(ProbeTimestampArray, ProbeCloseArray)

\* the target timestamp of the observed call (Null: no observation is on or
\* before it)
ProbeTargetTs == parseDateValue(probe.targetDateStr, tz)

\* the observed call has resolved to a price
ProbeSucceeds == ProbeSettled /\ IsNull(probe.outcome.value.error)

ProbeOnOrBefore ==
    LET series == ProbeSeries
        target == ProbeTargetTs
    IN  { k \in 1..Len(series) : ~IsNull(target) /\ series[k].ts <= Val(target) }

\* the last observation on or before the target, or the first observation
ProbeAnchor ==
    LET before == ProbeOnOrBefore
    IN  IF before = {} THEN 1
        ELSE CHOOSE k \in before : \A j \in before : j <= k

\* C14: the anchor of fetchClosingPrice is the observation of the series with
\* the greatest timestamp <= target, or the first observation when every one
\* is later; the reported price is the anchor's close rounded to one decimal
\* (the nearest tenth of a yen) and the reported date is the anchor's.
C14_AnchorSelection ==
    ProbeSucceeds =>
        /\ ProbeSeries # << >>
        /\ ~IsNull(probe.outcome.value.price)
        /\ LET tenths == Val(probe.outcome.value.price)
               close  == ProbeSeries[ProbeAnchor].close
           IN  10 * tenths - close \in (0 - 5)..5
        /\ probe.outcome.value.actualDate
             = Some(FormatYMD(LocalCivil(ProbeSeries[ProbeAnchor].ts, tz)))

\* three observations, the target between the second and the third: the
\* second is the anchor
C14_Witness ==
    /\ ProbeSucceeds
    /\ Len(ProbeSeries) = 3
    /\ ProbeSeries[1].ts < ProbeSeries[2].ts
    /\ ProbeSeries[2].ts < ProbeSeries[3].ts
    /\ ProbeAnchor = 2
    /\ probe.outcome.value.price = Some(1005)
    /\ ProbeSeries[2].close = 10050

\* the observed call has got as far as building the series (lines 290-297)
ProbeBuildsSeries ==
    /\ ProbeSettled
    /\ probe.ticker # << >>
    /\ probe.resp.net = "ok"
    /\ ResponseOk(probe.resp.status)
    /\ probe.resp.json = "chart"
    /\ ProbeTimestampArray # << >>
    /\ ProbeCloseArray # << >>

\* C15: the Trading-Day Series holds only observations with a present close,
\* in non-decreasing order of timestamp, and no two with the same timestamp.
C15_SeriesNoDuplicates ==
    ProbeBuildsSeries =>
        /\ \A k \in 1..Len(ProbeSeries) :
              \E j \in 1..Len(ProbeTimestampArray) :
                 /\ j <= Len(ProbeCloseArray)
                 /\ ProbeCloseArray[j] = Some(ProbeSeries[k].close)
                 /\ ProbeTimestampArray[j] = ProbeSeries[k].ts
        /\ \A k \in 2..Len(ProbeSeries) : ProbeSeries[k - 1].ts <= ProbeSeries[k].ts
        /\ \A j, k \in 1..Len(ProbeSeries) :
              j # k => ProbeSeries[j].ts # ProbeSeries[k].ts

\* this step stores the result of the in-flight call c and nothing else: the
\* map gains or replaces the key of c, and the error list grows at its end
IsWriteOf(c) ==
    /\ settled' = settled \cup {c.idx}
    /\ DOMAIN closingPrices' = DOMAIN closingPrices \cup {c.stock.rawCode}
    /\ \A code \in DOMAIN closingPrices :
          code # c.stock.rawCode => closingPrices'[code] = closingPrices[code]
    /\ Len(errorMessages') >= Len(errorMessages)
    /\ SubSeq(errorMessages', 1, Len(errorMessages)) = errorMessages

\* C16: while a run is in progress, every step that changes the results map or
\* the error list is the write that follows the settling of one instrument's
\* fetch; no file removal, file load or other action changes them.
C16_OnlyOrchestratorWrites ==
    [][(isFetching /\ (closingPrices' # closingPrices
                        \/ errorMessages' # errorMessages))
         => \E c \in inflight : IsWriteOf(c)]_vars

\* the map a run must end with: for every instrument of the run, what
\* fetchClosingPrice returns for its ticker, the run's reference date and the
\* provider's answer to its call
ExpectedResult(k) ==
    fetchClosingPrice(stocks[k].ticker, Val(targetDateStr), answers[k], tz).value

ExpectedMap ==
    [code \in RunCodes |->
        ExpectedResult(CHOOSE k \in 1..Len(stocks) : stocks[k].rawCode = code)]

\* C17: the results map an uninterrupted run ends with is a function of the
\* instrument list, the reference date and the provider's answer to each
\* instrument alone: same keys and same result per key, in whatever order the
\* fetches of a batch settled. Two such runs with the same inputs and the same
\* answers therefore end with identical maps.
C17_MapDeterminedByInputs ==
    (RunCompleted /\ ~interrupted) =>
        /\ DOMAIN answers = 1..Len(stocks)
        /\ closingPrices = ExpectedMap

\* an uninterrupted run has completed in which the fourth instrument settled
\* before the second (the error list keeps the settling order)
C17_Witness ==
    /\ RunCompleted
    /\ ~interrupted
    /\ Len(stocks) = ShortStocks
    /\ Len(errorMessages) >= 2
    /\ errorMessages[1].code = stocks[4].rawCode
    /\ errorMessages[2].code = stocks[2].rawCode
    /\ closingPrices = ExpectedMap

\* the settled calls of the current run that wrote under code
WritersOf(code) == { k \in settled : stocks[k].rawCode = code }

\* C18: a run starts on an empty results map and an empty error list, and
\* from then on every entry of either was produced by a settled call of the
\* current run: its key is an instrument of this run and its content is what
\* this run's call returned. Nothing of an earlier run is kept or merged.
C18_RunReplacesState ==
    /\ (isFetching /\ settled = {}) =>
          closingPrices = EmptyMap /\ errorMessages = << >>
    /\ \A code \in DOMAIN closingPrices :
          \E k \in WritersOf(code) : closingPrices[code] = ExpectedResult(k)
    /\ \A n \in 1..Len(errorMessages) :
          \E k \in WritersOf(errorMessages[n].code) :
             ExpectedResult(k).error = Some(errorMessages[n].error)
    /\ Len(errorMessages) <= Cardinality(settled)

\* a second run over the same file is in progress (the download button was
\* enabled by the run before it): the map holds the results settled so far in
\* this run only, fewer than the run before it left, and not both of its
\* errors yet
C18_Witness ==
    /\ isFetching
    /\ ~dom.downloadBtnDisabled
    /\ ~interrupted
    /\ settled # {}
    /\ settled # 1..Len(stocks)
    /\ DOMAIN closingPrices = { stocks[k].rawCode : k \in settled }
    /\ Len(errorMessages) < 2

\* the calls issued in the current run that have not settled
Pending == issued \ settled

\* C19: at any time at most BATCH_SIZE fetchClosingPrice calls have been
\* issued and not yet settled, and they all belong to one batch.
C19_InFlightBound ==
    /\ { c.idx : c \in inflight } = Pending
    /\ Cardinality(inflight) = Cardinality(Pending)
    /\ Cardinality(Pending) <= BATCH_SIZE
    /\ \A j, k \in Pending : BatchOf(j) = BatchOf(k)

\* the whole second batch of the long run is in flight
C19_Witness ==
    /\ isFetching
    /\ total = LongStocks
    /\ batches = 2
    /\ Cardinality(Pending) = BATCH_SIZE
    /\ \A k \in Pending : BatchOf(k) = 1

\* the one-day lookback a calendar-offset lookup from the anchor would give
ProbeDayBeforeLookup ==
    findClosestPrice(ProbeTimestampArray, ProbeCloseArray,
                     ProbeSeries[ProbeAnchor].ts - DAY)

\* C20: change1d is the change rate of the anchor's close against the close of
\* the series element just before the anchor, and null when the anchor is the
\* first element of the series (a single observation included).
C20_PreviousTradingDay ==
    ProbeSucceeds =>
        /\ ProbeSeries # << >>
        /\ probe.outcome.value.change1d =
             IF ProbeAnchor = 1 THEN Null
             ELSE calcChangeRate(Some(ProbeSeries[ProbeAnchor].close),
                                 Some(ProbeSeries[ProbeAnchor - 1].close))

\* the anchor has a predecessor in the series, and a calendar-offset lookup
\* one day back from the anchor finds a close that gives another change rate
C20_Witness ==
    /\ ProbeSucceeds
    /\ ProbeAnchor >= 2
    /\ ~IsNull(probe.outcome.value.change1d)
    /\ ~IsNull(ProbeDayBeforeLookup)
    /\ probe.outcome.value.change1d
         # calcChangeRate(Some(ProbeSeries[ProbeAnchor].close), ProbeDayBeforeLookup)

\* the call of instrument k of the current batch has just settled: the rest
\* of its callback has incremented the counter, reported it, and appended the
\* instrument's error, if it has one, at the end of the error list
SettlesWithProgress(c) ==
    /\ c.idx \notin settled
    /\ settled' = settled \cup {c.idx}
    /\ completed' = completed + 1
    /\ Len(progressLog') > Len(progressLog)
    /\ progressLog'[Len(progressLog) + 1] = << completed + 1, total >>
    /\ c.stock.rawCode \in DOMAIN closingPrices'
    /\ errorMessages' =
         IF Truthy(closingPrices'[c.stock.rawCode].error)
         THEN Append(errorMessages,
                     [code   |-> c.stock.rawCode,
                      name   |-> c.stock.name,
                      ticker |-> c.stock.ticker,
                      error  |-> Val(closingPrices'[c.stock.rawCode].error)])
         ELSE errorMessages

\* the batch the loop is at has just been issued: none of it has settled
BatchStarts ==
    /\ isFetching
    /\ Pending # {}
    /\ Pending = (i + 1)..Min(i + BATCH_SIZE, total)

CounterInRun ==
    (isFetching \/ RunCompleted) =>
        /\ completed = Cardinality(settled)
        /\ completed <= total
        /\ BatchStarts => completed = BATCH_SIZE * (batches - 1)
        /\ RunCompleted => completed = total

CounterStep ==
    /\ (~isFetching /\ isFetching') => completed' = 0
    /\ (isFetching /\ (completed' # completed \/ settled' # settled))
          => \E c \in inflight : SettlesWithProgress(c)

\* C21: the completed counter starts at 0, goes up by exactly 1 with every
\* settlement of one instrument, never exceeds the total, is 5*k when batch k
\* (from 0) starts and the total at completion; the progress report and the
\* error entry of an instrument are made at its settlement, so both follow
\* the order in which the calls of a batch settle.
C21_CounterFollowsSettlement ==
    []CounterInRun /\ [][CounterStep]_vars

\* the first batch of the all-failing run has settled in the reverse of the
\* input order, the counter is at 5 and the second batch has started
C21_Witness ==
    /\ isFetching
    /\ total = OrderStocks
    /\ batches = 2
    /\ BatchStarts
    /\ completed = BATCH_SIZE
    /\ Len(errorMessages) = BATCH_SIZE
    /\ \A n \in 1..BATCH_SIZE :
          errorMessages[n].code = stocks[BATCH_SIZE + 1 - n].rawCode

\* the indices of the batch instrument k belongs to
BatchMembers(k) ==
    (BatchOf(k) * BATCH_SIZE + 1)..Min((BatchOf(k) + 1) * BATCH_SIZE, total)

\* while the request of instrument k is pending the run is stalled in k's
\* batch: still in progress, waiting in Promise.all with no pacing timer set,
\* nothing of a later batch issued, and a click on the fetch button rejected
StalledBy(k) ==
    /\ isFetching
    /\ ~RunCompleted
    /\ ClickRejected
    /\ pc = "batch"
    /\ IsNull(timer)
    /\ issued \subseteq 1..Min((BatchOf(k) + 1) * BATCH_SIZE, total)
    /\ completed < total

\* every other member of k's batch has settled and its result was written
OthersWritten(k) ==
    /\ Pending = {k}
    /\ \A j \in BatchMembers(k) \ {k} :
          /\ j \in settled
          /\ stocks[j].rawCode \in DOMAIN writes
          /\ writes[stocks[j].rawCode] = 1

\* C22: as long as one request of a batch has not settled, no instrument of a
\* later batch is fetched, the run does not complete, isFetching stays true
\* and fetch clicks are rejected; so a request that never settles stalls the
\* run for ever. The other members of its batch settle all the same and their
\* results are written.
C22_HungRequestStallsRun ==
    /\ [](\A k \in Pending : StalledBy(k))
    /\ (HungIdx \in Pending) ~> (HungIdx \notin Pending \/ OthersWritten(HungIdx))

\* the request of instrument HungIdx is the only one pending: the other four
\* of the first batch are written, the last instrument was never fetched, the
\* run is in progress
C22_Witness ==
    /\ OthersWritten(HungIdx)
    /\ StalledBy(HungIdx)
    /\ total = ShortStocks
    /\ issued = 1..BATCH_SIZE
    /\ Cardinality(settled) = BATCH_SIZE - 1
    /\ ~interrupted
    /\ Cardinality(DOMAIN closingPrices) = BATCH_SIZE - 1

\* the lookbacks of fetchClosingPrice, in days
Lookbacks == { 7, 14, 30, 180 }

\* the change field of the lookback of n days in the observed result
ProbeChange(n) ==
    CASE n = 7   -> probe.outcome.value.change7d
      [] n = 14  -> probe.outcome.value.change14d
      [] n = 30  -> probe.outcome.value.change30d
      [] n = 180 -> probe.outcome.value.change180d

\* indices of the provider's arrays that hold a valid observation
ProbeValid ==
    { j \in 1..Len(ProbeTimestampArray) : ClosePresent(ProbeCloseArray, j) }

ProbeLookbackTs(n) == ProbeSeries[ProbeAnchor].ts - n * DAY

\* the valid observations on or before target
ProbeBeforeTs(target) ==
    LET ts == ProbeTimestampArray
    IN  { j \in ProbeValid : ts[j] <= target }

\* the observation a lookback to target compares with: the latest one on or
\* before the target, else the earliest one of all; the lowest index among
\* equal timestamps
ProbeComparedAt(target) ==
    LET ts     == ProbeTimestampArray
        valid  == ProbeValid
        before == ProbeBeforeTs(target)
    IN  IF before # {}
        THEN CHOOSE j \in before :
                \A k \in before : ts[k] < ts[j] \/ (ts[k] = ts[j] /\ j <= k)
        ELSE CHOOSE j \in valid :
                \A k \in valid : ts[k] > ts[j] \/ (ts[k] = ts[j] /\ j <= k)

\* the same for the lookback of n days from the anchor
ProbeBefore(n) == ProbeBeforeTs(ProbeLookbackTs(n))

ProbeCompared(n) == ProbeComparedAt(ProbeLookbackTs(n))

\* C23 as stated: with a single observation each of the four changes is 0.
C23_SingleObservationZero ==
    (ProbeSucceeds /\ Len(ProbeSeries) = 1) =>
        \A n \in Lookbacks : ProbeChange(n) = Some(0)

\* C23: in a successful result each of the 7-, 14-, 30- and 180-day changes
\* compares the anchor with a valid observation that is not later than the
\* anchor; the lookup always finds one, so the change is null only when the
\* compared close is 0. With a single observation the anchor is compared with
\* itself: the change is 0 (null when that close is 0).
C23_LookbackObservations ==
    ProbeSucceeds =>
        /\ ProbeValid # {}
        /\ LET series == ProbeSeries
               anchor == series[ProbeAnchor]
               cur    == anchor.close
           IN  \A n \in Lookbacks :
                  LET j    == ProbeComparedAt(anchor.ts - n * DAY)
                      past == Val(ProbeCloseArray[j])
                  IN  /\ ProbeTimestampArray[j] <= anchor.ts
                      /\ ProbeChange(n) =
                           IF past = 0 THEN Null
                           ELSE Some(MathRound((cur - past) * 10000, past))
                      /\ IsNull(ProbeChange(n)) <=> past = 0
                      /\ Len(series) = 1 =>
                            /\ past = cur
                            /\ ProbeChange(n) = IF cur = 0 THEN Null ELSE Some(0)

\* the 7-day change compares with an earlier observation found on or before
\* its target and is not 0, and the 30-day change, with no observation that
\* far back, compares with the earliest observation of the series
C23_Witness ==
    /\ ProbeSucceeds
    /\ ProbeAnchor >= 2
    /\ ProbeBefore(7) # {}
    /\ ProbeBefore(30) = {}
    /\ ~IsNull(ProbeChange(7))
    /\ ProbeChange(7) # Some(0)
    /\ ~IsNull(ProbeChange(30))
    /\ ProbeTimestampArray[ProbeCompared(30)] = ProbeSeries[1].ts

\* C24 as stated: the CSV export and the table rendering never read the
\* results map while a run is in progress and the map holds the results of
\* only part of the run's instruments.
C24_ConsumersReadCompletedRun ==
    ~IsNull(consumed) => ~(Val(consumed).running /\ Val(consumed).partial)

=============================================================================
